---- MODULE Spec2Model ----
(***************************************************************************)
(* sushi_train: add_query_params_to_url (general/urls.py, duplicated in    *)
(* main.py) and execute_SQL_file_list (main.py).                           *)
(*                                                                         *)
(* Text is a sequence of one-character strings.  A Python value is a       *)
(* record [t, s, n, l]: its type name, its characters (str), its number    *)
(* (int, bool) and its elements (list of ints).                            *)
(***************************************************************************)
EXTENDS Integers, Sequences, FiniteSets, TLC

\* ------------------------------------------------------------------ bounds

\* Largest number of entries of a params mapping.
MaxParams == 3

\* Largest number of paths of a list_of_file_paths.
MaxFiles == 3

\* ------------------------------------------------------------- characters

\* The printable ASCII characters, code points 32..126 in order (the double
\* quote, the backslash and the grave accent are written by name).
Printable ==
  << " ", "!", "<quot>", "#", "$", "%", "&", "'", "(", ")", "*", "+", ",", "-", ".", "/",
     "0", "1", "2", "3", "4", "5", "6", "7", "8", "9", ":", ";", "<", "=", ">", "?",
     "@", "A", "B", "C", "D", "E", "F", "G", "H", "I", "J", "K", "L", "M", "N", "O",
     "P", "Q", "R", "S", "T", "U", "V", "W", "X", "Y", "Z", "[", "<bsol>", "]", "^", "_",
     "<grave>", "a", "b", "c", "d", "e", "f", "g", "h", "i", "j", "k", "l", "m", "n", "o",
     "p", "q", "r", "s", "t", "u", "v", "w", "x", "y", "z", "{", "|", "}", "~" >>

\* A lone surrogate (U+DC00): a str character that UTF-8 cannot encode.
Surrogate == "<U+DC00>"

Ord(c) ==
  IF c = Surrogate THEN 56320
  ELSE 31 + (CHOOSE i \in 1..Len(Printable) : Printable[i] = c)

HexDigits == << "0", "1", "2", "3", "4", "5", "6", "7", "8", "9", "A", "B", "C", "D", "E", "F" >>

\* ------------------------------------------------------------------- text

RECURSIVE Concat(_)
\* The concatenation of a sequence of texts.
Concat(ts) == IF ts = <<>> THEN <<>> ELSE Head(ts) \o Concat(Tail(ts))

RECURSIVE Join(_, _)
\* sep.join(ts)
Join(sep, ts) ==
  IF ts = <<>> THEN <<>>
  ELSE IF Len(ts) = 1 THEN ts[1]
  ELSE ts[1] \o sep \o Join(sep, Tail(ts))

\* s.endswith(c) for a one-character c
EndsWith(s, c) == Len(s) > 0 /\ s[Len(s)] = c

\* c in s for a one-character c
Contains(s, c) == \E i \in 1..Len(s) : s[i] = c

RECURSIVE Digits(_)
\* The decimal digits of a natural number.
Digits(n) ==
  IF n < 10 THEN << HexDigits[n + 1] >>
  ELSE Digits(n \div 10) \o << HexDigits[(n % 10) + 1] >>

\* ---------------------------------------------------------- Python values

PyStr(s)  == [t |-> "str", s |-> s, n |-> 0, l |-> <<>>]
PyInt(n)  == [t |-> "int", s |-> <<>>, n |-> n, l |-> <<>>]
PyBool(b) == [t |-> "bool", s |-> <<>>, n |-> IF b THEN 1 ELSE 0, l |-> <<>>]
PyList(l) == [t |-> "list", s |-> <<>>, n |-> 0, l |-> l]
PyNone    == [t |-> "NoneType", s |-> <<>>, n |-> 0, l |-> <<>>]
\* An object whose __str__ raises.
PyBad     == [t |-> "object", s |-> <<>>, n |-> 0, l |-> <<>>]

\* Whether str(v) returns (it raises for an object whose __str__ raises).
StrOK(v) == v.t # "object"

IntStr(n) == IF n < 0 THEN << "-" >> \o Digits(-n) ELSE Digits(n)

\* str(v), where it returns
Str(v) ==
  CASE v.t = "str"      -> v.s
    [] v.t = "int"      -> IntStr(v.n)
    [] v.t = "bool"     -> IF v.n = 1 THEN << "T", "r", "u", "e" >>
                           ELSE << "F", "a", "l", "s", "e" >>
    [] v.t = "NoneType" -> << "N", "o", "n", "e" >>
    [] v.t = "list"     -> << "[" >>
                           \o Join(<< ",", " " >>, [i \in 1..Len(v.l) |-> IntStr(v.l[i])])
                           \o << "]" >>

\* ------------------------------------------------- urllib.parse.urlencode

\* The always-safe characters of quote(): letters, digits, underscore, dot, hyphen, tilde.
AlwaysSafe(c) ==
  \/ Ord(c) \in 48..57
  \/ Ord(c) \in 65..90
  \/ Ord(c) \in 97..122
  \/ c \in { "_", ".", "-", "~" }

\* Whether s.encode('utf-8', 'strict') succeeds.
Encodable(s) == \A i \in 1..Len(s) : Ord(s[i]) \notin 55296..57343

\* A quoting that leaves "+" as it is.
QuoteCharPlusSafe(c) ==
  IF AlwaysSafe(c) \/ c = "+" THEN << c >>
  ELSE IF c = " " THEN << "+" >>
  ELSE << "%", HexDigits[(Ord(c) \div 16) + 1], HexDigits[(Ord(c) % 16) + 1] >>

\* quote_plus of one ASCII character, safe=''
QuoteChar(c) ==
  IF AlwaysSafe(c) THEN << c >>
  ELSE IF c = " " THEN << "+" >>
  ELSE << "%", HexDigits[(Ord(c) \div 16) + 1], HexDigits[(Ord(c) % 16) + 1] >>

\* quote_plus(s, safe='') of an encodable ASCII text
QuotePlus(s) == Concat([i \in 1..Len(s) |-> QuoteChar(s[i])])

\* The name=value texts urlencode(doseq=True) emits for one item.
EncodeItem(k, v) ==
  LET name == QuotePlus(Str(k)) IN
  IF v.t = "list"
  THEN [i \in 1..Len(v.l) |-> name \o << "=" >> \o QuotePlus(IntStr(v.l[i]))]
  ELSE << name \o << "=" >> \o QuotePlus(Str(v)) >>

\* Whether urlencode(items, doseq=True) returns (it raises on unencodable text).
UrlencodeOK(items) ==
  \A i \in 1..Len(items) :
    /\ Encodable(Str(items[i][1]))
    /\ items[i][2].t = "str" => Encodable(items[i][2].s)

\* urlencode(items, doseq=True) for a mapping given as its items in order
Urlencode(items) ==
  Join(<< "&" >>, Concat([i \in 1..Len(items) |-> EncodeItem(items[i][1], items[i][2])]))


\* ------------------------------------------------------------------ dicts

\* A dict is the sequence of its items << key, value >> in insertion order.
HasKey(d, k) == \E i \in 1..Len(d) : d[i][1] = k

\* An assignment that puts a new key in front.
DictSetInFront(d, k, v) ==
  IF HasKey(d, k)
  THEN [i \in 1..Len(d) |-> IF d[i][1] = k THEN << k, v >> ELSE d[i]]
  ELSE << << k, v >> >> \o d

\* d[k] = v: a present key keeps its position and takes the new value, a new
\* key is appended.
DictSet(d, k, v) ==
  IF HasKey(d, k)
  THEN [i \in 1..Len(d) |-> IF d[i][1] = k THEN << k, v >> ELSE d[i]]
  ELSE Append(d, << k, v >>)

\* ------------------------------------------- add_query_params_to_url: steps

\* The params argument: None, or a mapping given by its items.
NoParams == [none |-> TRUE, items |-> <<>>]
Mapping(items) == [none |-> FALSE, items |-> items]

\* len(params) == 0, which None does not pass.
ParamsEmptyLen(p) == ~p.none /\ p.items = <<>>

\* not params
ParamsFalsy(p) == p.none \/ p.items = <<>>

\* if not value: falsy values are skipped with None.
SkipFalsy(value) ==
  value \in { PyNone, PyStr(<<>>), PyInt(0), PyBool(FALSE), PyList(<<>>) }

\* value is None
SkipEntry(value) == value = PyNone

\* cleaned_params[name]: the key is not coerced to text.
CleanKeyAsIs(name) == name

\* The key and the value stored in cleaned_params for an entry that is kept.
CleanKey(name) == PyStr(Str(name))
CleanValue(value) == PyStr(Str(value))

\* Whether the loop body raises on an entry: str(name) or str(value) raises,
\* and neither is evaluated for an entry whose value is None.
ItemRaises(name, value) == ~SkipEntry(value) /\ (~StrOK(name) \/ ~StrOK(value))

\* params[name] = str(value): the entry is coerced in the caller's object.
ParamsCoercedInPlace(p, i) ==
  IF p.items[i][2] = PyNone \/ ~StrOK(p.items[i][1]) \/ ~StrOK(p.items[i][2]) THEN p
  ELSE [p EXCEPT !.items[i] = << PyStr(Str(p.items[i][1])), PyStr(Str(p.items[i][2])) >>]

\* The params object after the loop body has run on its entry i: the body
\* assigns to cleaned_params only, so the object is as it was.
ParamsAfterIteration(p, i) == p

\* The second early return left out.
FilteredNeverEmpty(cleaned) == FALSE

\* not cleaned_params
FilteredEmpty(cleaned) == cleaned = <<>>

\* A separator rule that forgets the trailing "&".
SeparatorNoAmpersand(base) ==
  IF EndsWith(base, "?") THEN <<>>
  ELSE IF Contains(base, "?") THEN << "&" >>
  ELSE << "?" >>

\* The separator chosen from base_url.
Separator(base) ==
  IF EndsWith(base, "?") \/ EndsWith(base, "&") THEN <<>>
  ELSE IF Contains(base, "?") THEN << "&" >>
  ELSE << "?" >>

\* The base URL is tidied before the query is appended: its trailing "?" and
\* "&" are stripped and the separator is chosen afresh.
RECURSIVE StripTrailing(_)
StripTrailing(base) ==
  IF EndsWith(base, "?") \/ EndsWith(base, "&")
  THEN StripTrailing(SubSeq(base, 1, Len(base) - 1))
  ELSE base
ComposeTidied(base, sep, query) ==
  StripTrailing(base) \o (IF Contains(StripTrailing(base), "?") THEN << "&" >> ELSE << "?" >>) \o query

\* f"{base_url}{separator}{encoded_query}"
Compose(base, sep, query) == base \o sep \o query

RECURSIVE Cleaned(_, _)
\* cleaned_params after the loop over the first n items (where no item raises)
Cleaned(items, n) ==
  IF n = 0 THEN <<>>
  ELSE IF SkipEntry(items[n][2]) THEN Cleaned(items, n - 1)
  ELSE DictSet(Cleaned(items, n - 1), CleanKey(items[n][1]), CleanValue(items[n][2]))

\* The call run from entry to exit with nothing in between: what it returns,
\* or that it raises.
add_query_params_to_url(base, p) ==
  IF ParamsFalsy(p) THEN [raised |-> FALSE, value |-> base]
  ELSE IF p.none \/ \E i \in 1..Len(p.items) : ItemRaises(p.items[i][1], p.items[i][2])
  THEN [raised |-> TRUE, value |-> <<>>]
  ELSE LET cleaned == Cleaned(p.items, Len(p.items)) IN
       IF FilteredEmpty(cleaned) THEN [raised |-> FALSE, value |-> base]
       ELSE IF ~UrlencodeOK(cleaned) THEN [raised |-> TRUE, value |-> <<>>]
       ELSE [raised |-> FALSE, value |-> Compose(base, Separator(base), Urlencode(cleaned))]

\* The callers that may run add_query_params_to_url at the same time.
Callers == { "c1", "c2" }

Unset == << "<unset>" >>

VARIABLES
  active,            \* the callers that make a call
  params,            \* the caller's params object (shared by the active callers)
  caller_params,     \* what the caller put into the params object before the calls
  base_url,          \* base_url[c]: the argument of caller c
  pc,                \* pc[c]: where caller c's call stands
  idx,               \* idx[c]: the position of the loop over params.items()
  cleaned_params,    \* cleaned_params[c]: the local dict
  encoded_query,     \* encoded_query[c]: the local text
  result,            \* result[c]: the returned text
  exc,               \* exc[c]: the exception raised out of the call
  list_of_file_paths,\* execute_SQL_file_list: the argument
  fs,                \* the file system: full path -> what is there
  sql_pc,            \* where execute_SQL_file_list stands
  sql_i,             \* the position of its loop
  sql_text,          \* the text read from the current file
  opened,            \* the full paths opened and read, in order
  executed,          \* the full paths whose text con.execute has run, in order
  sql_exc            \* the exception raised out of execute_SQL_file_list

url_vars == << active, params, caller_params, base_url, pc, idx, cleaned_params, encoded_query, result, exc >>
sql_vars == << list_of_file_paths, fs, sql_pc, sql_i, sql_text, opened, executed, sql_exc >>
vars == << active, params, caller_params, base_url, pc, idx, cleaned_params, encoded_query, result, exc,
           list_of_file_paths, fs, sql_pc, sql_i, sql_text, opened, executed, sql_exc >>

NoExc == "none"

\* if not params: return base_url
CheckParams(c) ==
  /\ pc[c] = "entry"
  /\ IF ParamsFalsy(params)
     THEN /\ result' = [result EXCEPT ![c] = base_url[c]]
          /\ pc' = [pc EXCEPT ![c] = "returned"]
          /\ UNCHANGED << cleaned_params, idx, exc >>
     ELSE IF params.none
     THEN \* params.items() on None
          /\ exc' = [exc EXCEPT ![c] = "AttributeError"]
          /\ pc' = [pc EXCEPT ![c] = "raised"]
          /\ UNCHANGED << cleaned_params, idx, result >>
     ELSE /\ cleaned_params' = [cleaned_params EXCEPT ![c] = <<>>]
          /\ idx' = [idx EXCEPT ![c] = 1]
          /\ pc' = [pc EXCEPT ![c] = "loop"]
          /\ UNCHANGED << result, exc >>
  /\ UNCHANGED << active, params, caller_params, base_url, encoded_query >>
  /\ UNCHANGED sql_vars

\* One iteration of: for name, value in params.items()
LoopStep(c) ==
  /\ pc[c] = "loop"
  /\ idx[c] <= Len(params.items)
  /\ LET name  == params.items[idx[c]][1]
         value == params.items[idx[c]][2]
     IN  IF SkipEntry(value)
         THEN /\ idx' = [idx EXCEPT ![c] = @ + 1]
              /\ UNCHANGED << cleaned_params, pc, exc >>
         ELSE IF ItemRaises(name, value)
         THEN /\ exc' = [exc EXCEPT ![c] = "CoercionError"]
              /\ pc' = [pc EXCEPT ![c] = "raised"]
              /\ UNCHANGED << cleaned_params, idx >>
         ELSE /\ cleaned_params' =
                   [cleaned_params EXCEPT ![c] = DictSet(@, CleanKey(name), CleanValue(value))]
              /\ idx' = [idx EXCEPT ![c] = @ + 1]
              /\ UNCHANGED << pc, exc >>
  /\ params' = ParamsAfterIteration(params, idx[c])
  /\ UNCHANGED << active, caller_params, base_url, encoded_query, result >>
  /\ UNCHANGED sql_vars

\* The loop is exhausted; if not cleaned_params: return base_url
CheckCleaned(c) ==
  /\ pc[c] = "loop"
  /\ idx[c] > Len(params.items)
  /\ IF FilteredEmpty(cleaned_params[c])
     THEN /\ result' = [result EXCEPT ![c] = base_url[c]]
          /\ pc' = [pc EXCEPT ![c] = "returned"]
     ELSE /\ pc' = [pc EXCEPT ![c] = "encode"]
          /\ UNCHANGED result
  /\ UNCHANGED << active, params, caller_params, base_url, idx, cleaned_params, encoded_query, exc >>
  /\ UNCHANGED sql_vars

\* encoded_query = urlencode(cleaned_params, doseq=True)
Encode(c) ==
  /\ pc[c] = "encode"
  /\ IF UrlencodeOK(cleaned_params[c])
     THEN /\ encoded_query' = [encoded_query EXCEPT ![c] = Urlencode(cleaned_params[c])]
          /\ pc' = [pc EXCEPT ![c] = "join"]
          /\ UNCHANGED exc
     ELSE /\ exc' = [exc EXCEPT ![c] = "UnicodeEncodeError"]
          /\ pc' = [pc EXCEPT ![c] = "raised"]
          /\ UNCHANGED encoded_query
  /\ UNCHANGED << active, params, caller_params, base_url, idx, cleaned_params, result >>
  /\ UNCHANGED sql_vars

\* The separator is chosen and the result returned.
JoinResult(c) ==
  /\ pc[c] = "join"
  /\ result' = [result EXCEPT ![c] = Compose(base_url[c], Separator(base_url[c]), encoded_query[c])]
  /\ pc' = [pc EXCEPT ![c] = "returned"]
  /\ UNCHANGED << active, params, caller_params, base_url, idx, cleaned_params, encoded_query, exc >>
  /\ UNCHANGED sql_vars

UrlNext ==
  \/ \E c \in active : CheckParams(c)
  \/ \E c \in active : LoopStep(c)
  \/ \E c \in active : CheckCleaned(c)
  \/ \E c \in active : Encode(c)
  \/ \E c \in active : JoinResult(c)

\* -------------------------------------------- execute_SQL_file_list: steps

\* parent_path, the directory relative paths are joined to.
ParentPath == "/pkg/src"

\* The paths a list may name; the last is absolute.
FilePaths == { "a.sql", "b.sql", "/c.sql" }
IsAbsolute(p) == p = "/c.sql"

\* os.path.join(parent_path, file_path), as its components
FullPath(p) == IF IsAbsolute(p) THEN << p >> ELSE << ParentPath, p >>

\* The argument of the FileNotFoundError raised for a missing file: full_path.
MissingArg(p) == FullPath(p)

\* What a full path may hold: nothing; a file whose SQL runs; a file whose
\* SQL fails in con.execute; something that exists and cannot be opened and
\* read (a directory, a file without permission).
FileStates == { "missing", "good", "bad", "unreadable" }

\* os.path.exists(full_path)
Exists(full) == fs[full] # "missing"

\* Whether open(full_path, 'r') and file.read() succeed.
Readable(full) == fs[full] \in { "good", "bad" }

\* Whether con.execute(sql) returns for the text of this file.
ExecuteOK(full) == fs[full] = "good"

NoError == [type |-> "none", arg |-> <<>>]

\* A missing file is passed over and the loop goes on.
CheckExistsSkip ==
  /\ sql_pc = "check"
  /\ sql_i <= Len(list_of_file_paths)
  /\ IF Exists(FullPath(list_of_file_paths[sql_i]))
     THEN sql_pc' = "open" /\ sql_i' = sql_i
     ELSE sql_pc' = "check" /\ sql_i' = sql_i + 1
  /\ UNCHANGED << list_of_file_paths, fs, sql_text, opened, executed, sql_exc >>
  /\ UNCHANGED url_vars

\* if not os.path.exists(full_path): raise FileNotFoundError(full_path)
CheckExists ==
  /\ sql_pc = "check"
  /\ sql_i <= Len(list_of_file_paths)
  /\ LET full == FullPath(list_of_file_paths[sql_i])
     IN  IF Exists(full)
         THEN /\ sql_pc' = "open"
              /\ UNCHANGED sql_exc
         ELSE /\ sql_exc' = [type |-> "FileNotFoundError", arg |-> MissingArg(list_of_file_paths[sql_i])]
              /\ sql_pc' = "raised"
  /\ UNCHANGED << list_of_file_paths, fs, sql_i, sql_text, opened, executed >>
  /\ UNCHANGED url_vars

\* with open(full_path, 'r') as file: sql = file.read()
ReadFile ==
  /\ sql_pc = "open"
  /\ LET full == FullPath(list_of_file_paths[sql_i])
     IN  IF Readable(full)
         THEN /\ sql_text' = full
              /\ opened' = Append(opened, full)
              /\ sql_pc' = "execute"
              /\ UNCHANGED sql_exc
         ELSE /\ sql_exc' = [type |-> IF Exists(full) THEN "OSError" ELSE "FileNotFoundError",
                              arg |-> << "errno", full >>]
              /\ sql_pc' = "raised"
              /\ UNCHANGED << sql_text, opened >>
  /\ UNCHANGED << list_of_file_paths, fs, sql_i, executed >>
  /\ UNCHANGED url_vars

\* try: con.execute(sql) / except Exception: raise
Execute ==
  /\ sql_pc = "execute"
  /\ IF ExecuteOK(sql_text)
     THEN /\ executed' = Append(executed, sql_text)
          /\ sql_i' = sql_i + 1
          /\ sql_pc' = "check"
          /\ UNCHANGED sql_exc
     ELSE /\ sql_exc' = [type |-> "ExecutionError", arg |-> sql_text]
          /\ sql_pc' = "raised"
          /\ UNCHANGED << executed, sql_i >>
  /\ UNCHANGED << list_of_file_paths, fs, sql_text, opened >>
  /\ UNCHANGED url_vars

\* The list is exhausted: the call returns None.
Finish ==
  /\ sql_pc = "check"
  /\ sql_i > Len(list_of_file_paths)
  /\ sql_pc' = "returned"
  /\ UNCHANGED << list_of_file_paths, fs, sql_i, sql_text, opened, executed, sql_exc >>
  /\ UNCHANGED url_vars

SqlNext == CheckExists \/ ReadFile \/ Execute \/ Finish

\* ----------------------------------------------------------------- inputs

\* The mappings of at most MaxParams entries over the keys and values (a
\* dict holds a key once), and None.
ParamsOver(keys, values) ==
  { NoParams } \cup
  UNION { { Mapping(s) : s \in { t \in [1..n -> keys \X values] :
                                   \A i, j \in 1..n : i < j => t[i][1] # t[j][1] } }
          : n \in 0..(IF MaxParams < Cardinality(keys) THEN MaxParams ELSE Cardinality(keys)) }

\* The lists of at most MaxFiles paths.
FileLists == UNION { [1..n -> FilePaths] : n \in 0..MaxFiles }

FullPaths == { FullPath(p) : p \in FilePaths }

T_1 == << "1" >>
T_5 == << "5" >>
T_key == << "k", "&", "=" >>
T_reserved == << "a", " ", "b", "&", "c", "=", "?", "#", "%", "+" >>
T_surrogate == << "a", Surrogate >>

\* Keys and values of every kind the function treats differently: text with
\* reserved characters, the empty text, numbers and booleans that are falsy,
\* a list, None; the int 1 and the text 1 are different keys with the same text.
Keys == { PyStr(T_1), PyInt(1), PyStr(T_key) }
Values == { PyNone, PyStr(<<>>), PyStr(T_5), PyStr(T_reserved), PyInt(0), PyBool(FALSE),
            PyList(<< 1, 2 >>) }

\* Keys and values among which some cannot be coerced or encoded.
FailKeys == { PyStr(T_1), PyInt(1), PyBad, PyStr(T_surrogate) }
FailValues == { PyNone, PyStr(T_5), PyBad, PyStr(T_surrogate) }

\* Keys and values of concurrent calls.
ConcKeys == { PyStr(T_1), PyInt(1) }
ConcValues == { PyNone, PyStr(T_5), PyInt(0) }

BaseUrls ==
  { <<>>,
    << "x", "/", "y" >>,
    << "x", "/", "y", "?" >>,
    << "x", "/", "y", "?", "b", "=", "2" >>,
    << "x", "/", "y", "?", "b", "=", "2", "&" >>,
    << "x", "/", "y", "&" >>,
    << "x", "#", "f", "?", "g" >>,
    << "x", "?", "1", "=", "5" >> }

SomeBaseUrls ==
  { << "x", "/", "y" >>,
    << "x", "/", "y", "?" >>,
    << "x", "?", "1", "=", "5" >> }

SqlIdle ==
  /\ list_of_file_paths = <<>>
  /\ fs = [f \in FullPaths |-> "missing"]
  /\ sql_pc = "idle"
  /\ sql_i = 1
  /\ sql_text = <<>>
  /\ opened = <<>>
  /\ executed = <<>>
  /\ sql_exc = NoError

\* The callers are about to enter add_query_params_to_url with the same
\* params object and a base_url each.
UrlInit(keys, values, bases, callers) ==
  /\ active = callers
  /\ params \in ParamsOver(keys, values)
  /\ caller_params = params
  /\ \E b \in [callers -> bases] :
       base_url = [c \in Callers |-> IF c \in callers THEN b[c] ELSE <<>>]
  /\ pc = [c \in Callers |-> IF c \in callers THEN "entry" ELSE "idle"]
  /\ idx = [c \in Callers |-> 1]
  /\ cleaned_params = [c \in Callers |-> <<>>]
  /\ encoded_query = [c \in Callers |-> Unset]
  /\ result = [c \in Callers |-> Unset]
  /\ exc = [c \in Callers |-> NoExc]
  /\ SqlIdle

Init == UrlInit(Keys, Values, BaseUrls, { "c1" })

InitFail == UrlInit(FailKeys, FailValues, SomeBaseUrls, { "c1" })

InitConc == UrlInit(ConcKeys, ConcValues, SomeBaseUrls, Callers)

\* execute_SQL_file_list is about to run on a list and a file system.
InitSql ==
  /\ active = {}
  /\ params = NoParams
  /\ caller_params = NoParams
  /\ base_url = [c \in Callers |-> <<>>]
  /\ pc = [c \in Callers |-> "idle"]
  /\ idx = [c \in Callers |-> 1]
  /\ cleaned_params = [c \in Callers |-> <<>>]
  /\ encoded_query = [c \in Callers |-> Unset]
  /\ result = [c \in Callers |-> Unset]
  /\ exc = [c \in Callers |-> NoExc]
  /\ list_of_file_paths \in FileLists
  /\ fs \in [FullPaths -> FileStates]
  /\ sql_pc = "check"
  /\ sql_i = 1
  /\ sql_text = <<>>
  /\ opened = <<>>
  /\ executed = <<>>
  /\ sql_exc = NoError

Next == UrlNext

\* One call of add_query_params_to_url on every base URL and mapping.
Spec == Init /\ [][Next]_vars

\* One call on mappings with keys and values that cannot be coerced or encoded.
SpecFail == InitFail /\ [][Next]_vars

\* Two calls at the same time on one params object.
SpecConc == InitConc /\ [][Next]_vars

\* One call of execute_SQL_file_list.
SpecSql == InitSql /\ [][SqlNext]_vars


\* ------------------------------------------------ what the claims speak of

Range(s) == { s[i] : i \in 1..Len(s) }

RECURSIVE SplitOn(_, _)
\* s.split(c)
SplitOn(s, c) ==
  IF c \notin Range(s) THEN << s >>
  ELSE LET i == CHOOSE i \in 1..Len(s) : s[i] = c /\ \A j \in 1..(i - 1) : s[j] # c
       IN  << SubSeq(s, 1, i - 1) >> \o SplitOn(SubSeq(s, i + 1, Len(s)), c)

\* How often c occurs in s.
Count(s, c) == Cardinality({ i \in 1..Len(s) : s[i] = c })

IsPrefix(s, t) == Len(s) <= Len(t) /\ SubSeq(t, 1, Len(s)) = s

\* The entries of a mapping whose value is not None, in insertion order.
Kept(p) == SelectSeq(p.items, LAMBDA e : e[2] # PyNone)

HasValue(p) == Kept(p) # <<>>

\* The separator by the three-way rule, read off the last character first.
RuleSeparator(base) ==
  LET last == IF base = <<>> THEN "" ELSE base[Len(base)] IN
  CASE last \in { "?", "&" } -> <<>>
    [] last \notin { "?", "&" } /\ "?" \in Range(base) -> << "&" >>
    [] OTHER -> << "?" >>

\* What the call appended to base_url, and the query in it.
Suffix(c) == SubSeq(result[c], Len(base_url[c]) + 1, Len(result[c]))
AppendedQuery(c) ==
  SubSeq(Suffix(c), Len(RuleSeparator(base_url[c])) + 1, Len(Suffix(c)))
EmittedPairs(c) == IF AppendedQuery(c) = <<>> THEN <<>> ELSE SplitOn(AppendedQuery(c), "&")

\* name=value for an entry, both coerced to text and encoded.
PairText(k, v) == QuotePlus(Str(k)) \o << "=" >> \o QuotePlus(Str(v))
PairsOf(es) == [i \in 1..Len(es) |-> PairText(es[i][1], es[i][2])]

\* The encoded name of an emitted pair: what precedes its first "=".
PairName(pair) == SplitOn(pair, "=")[1]

SameText(e, f) == Str(e[1]) = Str(f[1])
NoCollision(es) == \A i, j \in 1..Len(es) : i < j => ~SameText(es[i], es[j])
FirstOfText(es, i) == \A j \in 1..(i - 1) : ~SameText(es[j], es[i])
LastOfText(es, i) == \A j \in (i + 1)..Len(es) : ~SameText(es[j], es[i])

RECURSIVE PairsFrom(_, _)
\* One pair per distinct key text from entry i on: at the place of the first
\* entry with that text, with the value of the last.
PairsFrom(es, i) ==
  IF i > Len(es) THEN <<>>
  ELSE (IF FirstOfText(es, i)
        THEN LET j == CHOOSE j \in i..Len(es) : SameText(es[j], es[i]) /\ LastOfText(es, j)
             IN  << PairText(es[i][1], es[j][2]) >>
        ELSE <<>>) \o PairsFrom(es, i + 1)
ExpectedPairs(p) == PairsFrom(Kept(p), 1)

RECURSIVE IsSubsequence(_, _)
\* Whether s is t with some elements left out.
IsSubsequence(s, t) ==
  IF s = <<>> THEN TRUE
  ELSE IF t = <<>> THEN FALSE
  ELSE IF Head(s) = Head(t) THEN IsSubsequence(Tail(s), Tail(t))
  ELSE IsSubsequence(s, Tail(t))

\* urllib.parse.parse_qsl, the standard decoder of a query string.
\* The character of a code point 32..126.
Chr(n) == Printable[n - 31]
IsHex(c) == \E i \in 1..16 : HexDigits[i] = c
HexVal(c) == (CHOOSE i \in 1..16 : HexDigits[i] = c) - 1
RECURSIVE Unquote(_)
Unquote(s) ==
  IF s = <<>> THEN <<>>
  ELSE IF s[1] = "%" /\ Len(s) >= 3 /\ IsHex(s[2]) /\ IsHex(s[3])
  THEN << Chr(16 * HexVal(s[2]) + HexVal(s[3])) >> \o Unquote(SubSeq(s, 4, Len(s)))
  ELSE << s[1] >> \o Unquote(Tail(s))
PlusToSpace(s) == [i \in 1..Len(s) |-> IF s[i] = "+" THEN " " ELSE s[i]]
\* name_value.split('=', 1)
SplitFirst(s, c) ==
  IF c \notin Range(s) THEN << s >>
  ELSE LET i == CHOOSE i \in 1..Len(s) : s[i] = c /\ \A j \in 1..(i - 1) : s[j] # c
       IN  << SubSeq(s, 1, i - 1), SubSeq(s, i + 1, Len(s)) >>
RECURSIVE ParseFields(_, _)
ParseFields(fields, keep_blank_values) ==
  IF fields = <<>> THEN <<>>
  ELSE LET rest == ParseFields(Tail(fields), keep_blank_values)
           nv == SplitFirst(Head(fields), "=")
           value == IF Len(nv) = 2 THEN nv[2] ELSE <<>>
       IN  IF Head(fields) = <<>> THEN rest
           ELSE IF Len(nv) # 2 /\ ~keep_blank_values THEN rest
           ELSE IF Len(value) > 0 \/ keep_blank_values
           THEN << << Unquote(PlusToSpace(nv[1])), Unquote(PlusToSpace(value)) >> >> \o rest
           ELSE rest
ParseQsl(qs, keep_blank_values) == ParseFields(SplitOn(qs, "&"), keep_blank_values)

AllText(p) ==
  /\ ~p.none
  /\ p.items # <<>>
  /\ \A i \in 1..Len(p.items) : p.items[i][1].t = "str" /\ p.items[i][2].t = "str"
TextPairs(p) == [i \in 1..Len(p.items) |-> << p.items[i][1].s, p.items[i][2].s >>]
AsItems(pairs) == [i \in 1..Len(pairs) |-> << PyStr(pairs[i][1]), PyStr(pairs[i][2]) >>]

Returned(c) == pc[c] = "returned"


\* -------------------------------------------------------------------- C1

\* C1: a call on params with at least one non-None value returns
\* base_url + sep + encoded_query, where sep is empty if base_url ends with
\* "?" or "&", else "&" if base_url contains "?" anywhere, else "?"; and no
\* "??", "?&" or "&&" stands at the junction of base_url and what follows.
C1_SeparatorRule ==
  \A c \in active :
    (HasValue(caller_params) /\ Returned(c)) =>
      /\ encoded_query[c] \notin { Unset, <<>> }
      /\ result[c] = base_url[c] \o RuleSeparator(base_url[c]) \o encoded_query[c]
      /\ LET r == result[c]
             n == Len(base_url[c])
         IN  \A i \in { n, n + 1 } :
               (i >= 1 /\ i + 1 <= Len(r)) =>
                 << r[i], r[i + 1] >> \notin { << "?", "?" >>, << "?", "&" >>, << "&", "&" >> }

\* A call has returned on a base URL whose only "?" is inside its fragment,
\* joined with "&".
C1_Witness ==
  /\ Returned("c1")
  /\ HasValue(caller_params)
  /\ base_url["c1"] = << "x", "#", "f", "?", "g" >>
  /\ result["c1"] = base_url["c1"] \o << "&" >> \o encoded_query["c1"]

\* -------------------------------------------------------------------- C2

NothingToAppend(p) == p.none \/ \A i \in 1..Len(p.items) : p.items[i][2] = PyNone

\* C2: when params is None, empty, or has only None values, the call returns
\* exactly base_url, whatever base_url ends with; it never gets to encode or
\* join anything and never raises.
C2_NothingAppended ==
  \A c \in active :
    NothingToAppend(caller_params) =>
      /\ pc[c] \notin { "encode", "join", "raised" }
      /\ Returned(c) => result[c] = base_url[c]

\* A call on a mapping of two entries, both None, with a base URL that has
\* no "?" yet, has returned the base URL.
C2_Witness ==
  /\ Returned("c1")
  /\ ~caller_params.none
  /\ Len(caller_params.items) = 2
  /\ NothingToAppend(caller_params)
  /\ base_url["c1"] = << "x", "/", "y" >>
  /\ result["c1"] = << "x", "/", "y" >>


\* -------------------------------------------------------------------- C3

\* C3 as stated: the filtered mapping holds exactly the entries of params
\* whose value is not None, and every such entry (the empty text, 0 and False
\* among the values) is emitted as a name=value pair, a None entry as nothing.
C3_AsStated ==
  \A c \in active :
    (Returned(c) /\ ~caller_params.none) =>
      /\ Len(cleaned_params[c]) = Len(Kept(caller_params))
      /\ Len(EmittedPairs(c)) = Len(Kept(caller_params))
      /\ \A i \in 1..Len(Kept(caller_params)) :
           PairsOf(Kept(caller_params))[i] \in Range(EmittedPairs(c))

\* C3, amended: the filtered mapping holds one entry per distinct key text
\* among the entries whose value is not None: the key text and the text of
\* the value of the last such entry.  An entry with value None gives nothing
\* to the output; every pair emitted is the pair of an entry with a non-None
\* value, and every entry with a non-None value (the empty text, 0 and False
\* among them) whose key text no later such entry repeats is emitted as its
\* name=value pair.  With key texts all different, the pairs are exactly
\* those of the non-None entries.
C3_NullSkip ==
  \A c \in active :
    (Returned(c) /\ ~caller_params.none) =>
      LET es == Kept(caller_params) IN
      /\ Len(cleaned_params[c]) = Cardinality({ Str(es[i][1]) : i \in 1..Len(es) })
      /\ \A i \in 1..Len(es) :
           LastOfText(es, i) =>
             /\ << PyStr(Str(es[i][1])), PyStr(Str(es[i][2])) >> \in Range(cleaned_params[c])
             /\ PairsOf(es)[i] \in Range(EmittedPairs(c))
      /\ Len(EmittedPairs(c)) = Len(cleaned_params[c])
      /\ Range(EmittedPairs(c)) \subseteq Range(PairsOf(es))
      /\ NoCollision(es) => EmittedPairs(c) = PairsOf(es)

\* A call has returned on a mapping with a None entry, an empty text and a
\* falsy number or boolean, its key texts all different: two pairs came out.
C3_Witness ==
  /\ Returned("c1")
  /\ Len(caller_params.items) = 3
  /\ \E i, j, k \in 1..3 :
       /\ caller_params.items[i][2] = PyNone
       /\ caller_params.items[j][2] = PyStr(<<>>)
       /\ caller_params.items[k][2] \in { PyInt(0), PyBool(FALSE) }
  /\ NoCollision(Kept(caller_params))
  /\ Len(EmittedPairs("c1")) = 2

\* -------------------------------------------------------------------- C4

\* C4 as stated: the pairs of the appended query stand in the insertion
\* order of the non-None entries of params.
C4_AsStated ==
  \A c \in active :
    (Returned(c) /\ ~caller_params.none) =>
      IsSubsequence(EmittedPairs(c), PairsOf(Kept(caller_params)))

\* C4, amended: the pairs of the appended query stand in the order in which
\* the key texts of the non-None entries first occur; when these key texts
\* are all different, that is the insertion order of the non-None entries,
\* and leaving out the None entries reorders nothing.
C4_OrderPreserved ==
  \A c \in active :
    (Returned(c) /\ ~caller_params.none) =>
      LET es == Kept(caller_params)
          firsts == SelectSeq([i \in 1..Len(es) |->
                                 IF FirstOfText(es, i) THEN QuotePlus(Str(es[i][1])) ELSE <<>>],
                              LAMBDA t : t # <<>>)
      IN  /\ [i \in 1..Len(EmittedPairs(c)) |-> PairName(EmittedPairs(c)[i])] = firsts
          /\ NoCollision(es) => EmittedPairs(c) = PairsOf(es)

\* A call has returned on three entries whose middle one is None and whose
\* outer ones have different key texts: their two pairs came out in order.
C4_Witness ==
  /\ Returned("c1")
  /\ Len(caller_params.items) = 3
  /\ caller_params.items[2][2] = PyNone
  /\ Len(Kept(caller_params)) = 2
  /\ NoCollision(Kept(caller_params))
  /\ EmittedPairs("c1") = << PairsOf(Kept(caller_params))[1], PairsOf(Kept(caller_params))[2] >>
  /\ PairsOf(Kept(caller_params))[1] # PairsOf(Kept(caller_params))[2]

\* -------------------------------------------------------------------- C6

\* C6: the result has base_url as an exact prefix, and what follows it is
\* the separator and a query that is a function of params alone; a name
\* that base_url already carries is appended again.
C6_BasePassedThrough ==
  \A c \in active :
    Returned(c) =>
      /\ IsPrefix(base_url[c], result[c])
      /\ Suffix(c) = IF ExpectedPairs(caller_params) = <<>> THEN <<>>
                     ELSE RuleSeparator(base_url[c]) \o Join(<< "&" >>, ExpectedPairs(caller_params))

\* 1=5 was appended to a base URL whose query already has 1=5.
C6_Witness ==
  /\ Returned("c1")
  /\ base_url["c1"] = << "x", "?", "1", "=", "5" >>
  /\ caller_params = Mapping(<< << PyStr(T_1), PyStr(T_5) >> >>)
  /\ result["c1"] = << "x", "?", "1", "=", "5", "&", "1", "=", "5" >>

\* ------------------------------------------------------------------- C10

\* C10: the appended query has exactly one pair per distinct key text among
\* the non-None entries; of entries whose keys have the same text, the pair
\* stands where the first stood and carries the value of the last; a list
\* value is emitted as one pair, its text form encoded, never as repeated
\* keys.
C10_OnePairPerKeyText ==
  \A c \in active :
    (Returned(c) /\ ~caller_params.none) =>
      LET es == Kept(caller_params) IN
      /\ Len(EmittedPairs(c)) = Cardinality({ Str(es[i][1]) : i \in 1..Len(es) })
      /\ EmittedPairs(c) = ExpectedPairs(caller_params)
      /\ \A i \in 1..Len(es) :
           (LastOfText(es, i) /\ es[i][2] = PyList(<< 1, 2 >>)) =>
             /\ QuotePlus(Str(es[i][1])) \o << "=", "%", "5", "B", "1", "%", "2", "C", "+", "2", "%", "5", "D" >> \in Range(EmittedPairs(c))
             /\ Cardinality({ k \in 1..Len(EmittedPairs(c)) :
                                PairName(EmittedPairs(c)[k]) = QuotePlus(Str(es[i][1])) }) = 1

\* The int 1, another key, then the text 1 with a list: the pair of key text
\* 1 stands first and carries the list's text.
C10_Witness ==
  /\ Returned("c1")
  /\ caller_params = Mapping(<< << PyInt(1), PyStr(T_5) >>,
                                << PyStr(T_key), PyInt(0) >>,
                                << PyStr(T_1), PyList(<< 1, 2 >>) >> >>)
  /\ base_url["c1"] = << "x", "/", "y" >>
  /\ result["c1"] = << "x", "/", "y", "?", "1", "=", "%", "5", "B", "1", "%", "2", "C", "+", "2", "%", "5", "D", "&", "k", "%", "2", "6", "%", "3", "D", "=", "0" >>


\* -------------------------------------------------------------------- C5

\* C5 as stated: for text keys and text values, the standard decoder
\* (parse_qsl as it is called by default) gives back the pairs of params.
C5_AsStated ==
  \A c \in active :
    (Returned(c) /\ AllText(caller_params)) =>
      ParseQsl(AppendedQuery(c), FALSE) = TextPairs(caller_params)

\* C5, amended: for text keys and text values, reserved characters among
\* them, the standard decoder told to keep blank values gives back exactly
\* the pairs of params in order (and so does the decoder as called by
\* default when no value is the empty text); encoding the decoded pairs
\* again gives the same query; and the appended query has no "&" but
\* between pairs and no "=" but one in each pair.
C5_RoundTrip ==
  \A c \in active :
    (Returned(c) /\ AllText(caller_params)) =>
      LET q == AppendedQuery(c)
          n == Len(caller_params.items)
      IN  /\ ParseQsl(q, TRUE) = TextPairs(caller_params)
          /\ (\A i \in 1..n : caller_params.items[i][2].s # <<>>) =>
               ParseQsl(q, FALSE) = TextPairs(caller_params)
          /\ Urlencode(AsItems(ParseQsl(q, TRUE))) = q
          /\ Count(q, "&") = n - 1
          /\ Count(q, "=") = n

\* A key and a value with reserved characters were encoded and decode to
\* themselves.
C5_Witness ==
  /\ Returned("c1")
  /\ caller_params = Mapping(<< << PyStr(T_key), PyStr(T_reserved) >>,
                                << PyStr(T_1), PyStr(<<>>) >> >>)
  /\ AppendedQuery("c1") = << "k", "%", "2", "6", "%", "3", "D", "=", "a", "+", "b", "%", "2", "6", "c", "%", "3", "D", "%", "3", "F", "%", "2", "3", "%", "2", "5", "%", "2", "B", "&", "1", "=" >>
  /\ ParseQsl(AppendedQuery("c1"), TRUE) = << << T_key, T_reserved >>, << T_1, <<>> >> >>

\* -------------------------------------------------------------------- C7

\* An entry the loop cannot coerce: its value is not None and str() raises
\* on its key or its value.
Uncoercible(e) == e[2] # PyNone /\ (~StrOK(e[1]) \/ ~StrOK(e[2]))
\* An entry with text that cannot be encoded.
Unencodable(e) ==
  /\ e[2] # PyNone /\ StrOK(e[1]) /\ StrOK(e[2])
  /\ ~Encodable(Str(e[1])) \/ ~Encodable(Str(e[2]))

\* C7: a call raises only when a key or value of params cannot be coerced
\* to text or encoded, and then the error leaves the call (an entry that
\* cannot be coerced is never passed over: a call that returned met none).
\* A call ends with a complete string and no error, or with an error and no
\* result; while it runs it has neither; and the caller's params object is
\* as it was.
C7_FailureSemantics ==
  \A c \in active :
    /\ pc[c] = "raised" =>
         /\ exc[c] \in { "CoercionError", "UnicodeEncodeError" }
         /\ result[c] = Unset
         /\ params = caller_params
         /\ \E i \in 1..Len(caller_params.items) :
              Uncoercible(caller_params.items[i]) \/ Unencodable(caller_params.items[i])
    /\ Returned(c) =>
         /\ exc[c] = NoExc
         /\ result[c] # Unset
         /\ IsPrefix(base_url[c], result[c])
         /\ \A i \in 1..Len(caller_params.items) : ~Uncoercible(caller_params.items[i])
         /\ \A i \in 1..Len(cleaned_params[c]) :
              Encodable(cleaned_params[c][i][1].s) /\ Encodable(cleaned_params[c][i][2].s)
    /\ pc[c] \notin { "raised", "returned" } => (exc[c] = NoExc /\ result[c] = Unset)

\* The loop kept one entry and raised on the next, whose value cannot be
\* coerced: nothing was returned, and params still holds both.
C7_Witness ==
  /\ pc["c1"] = "raised"
  /\ exc["c1"] = "CoercionError"
  /\ Len(cleaned_params["c1"]) = 1
  /\ idx["c1"] = 2
  /\ caller_params.items[2][2] = PyBad
  /\ result["c1"] = Unset
  /\ params = caller_params

\* -------------------------------------------------------------------- C8

C8_State ==
  /\ params = caller_params
  /\ \A c \in active :
       /\ Returned(c) =>
            /\ ~add_query_params_to_url(base_url[c], caller_params).raised
            /\ result[c] = add_query_params_to_url(base_url[c], caller_params).value
       /\ pc[c] = "raised" => add_query_params_to_url(base_url[c], caller_params).raised
  /\ \A c, d \in active :
       (Returned(c) /\ Returned(d) /\ base_url[c] = base_url[d]) => result[c] = result[d]

\* C8: no step of a call changes base_url or the caller's params mapping
\* (None entries stay, keys and values stay what they were); calls that run
\* at the same time on the same params return, each, what the call run
\* alone returns, and two calls with the same arguments return the same.
C8_Pure ==
  /\ []C8_State
  /\ [][params' = params /\ base_url' = base_url]_vars

\* Two calls on one mapping with a None entry and an int value are both in
\* their loops, past the first entry, and have both kept something.
C8_Witness ==
  /\ pc["c1"] = "loop" /\ pc["c2"] = "loop"
  /\ idx["c1"] = 2 /\ idx["c2"] = 3
  /\ \E i \in 1..Len(params.items) : params.items[i][2] = PyNone
  /\ \E i \in 1..Len(params.items) : params.items[i][2] = PyInt(0)
  /\ params = caller_params

\* -------------------------------------------------------------------- C9

FullList == [i \in 1..Len(list_of_file_paths) |-> FullPath(list_of_file_paths[i])]
Stoppers == { i \in 1..Len(FullList) : fs[FullList[i]] # "good" }
\* The first path of the list that is missing, unreadable or fails; 0 if none.
FirstStop == IF Stoppers = {} THEN 0 ELSE CHOOSE i \in Stoppers : \A j \in Stoppers : i <= j
SqlEnded == sql_pc \in { "returned", "raised" }

====
